---------------------------- MODULE Spec2Model ----------------------------
(***************************************************************************)
(* A model of NmapDojo: the progress counters (XP, level, topic index,     *)
(* missions completed) and their JSON file, the mission generator and the  *)
(* command validator with their parse-and-retry loops around the model     *)
(* API, and the UI handlers of NmapDojoApp with their background threads.  *)
(*                                                                         *)
(* Python indices are 0-based, TLA+ sequences 1-based: topics[i] of the    *)
(* code is TopicAt(topics, i) here.  A response text is a sequence of      *)
(* one-character strings in which a whole JSON document (or a truncated    *)
(* one) is a single token.                                                 *)
(***************************************************************************)
EXTENDS Integers, Sequences, FiniteSets, TLC

(***************************************************************************)
(* Bounds of the model.                                                    *)
(***************************************************************************)
MaxMissionsCompleted == 2
MaxHintClicks == 3
MaxStartIndex == 14
MaxXpInput == 2100

(***************************************************************************)
(* config/constants.py                                                     *)
(***************************************************************************)
XP_FIRST_TRY == 100
XP_ONE_HINT == 50
XP_TWO_HINTS == 25

\* A table whose second row starts one XP late, leaving 300 in no row: the
\* table property of calculate_level tells it from LEVEL_THRESHOLDS.
ThresholdsWithGap ==
    << [level |-> 1, min_xp |-> 0,    max_xp |-> 299,  inf |-> FALSE],
       [level |-> 2, min_xp |-> 301,  max_xp |-> 699,  inf |-> FALSE],
       [level |-> 3, min_xp |-> 700,  max_xp |-> 1199, inf |-> FALSE],
       [level |-> 4, min_xp |-> 1200, max_xp |-> 1999, inf |-> FALSE],
       [level |-> 5, min_xp |-> 2000, max_xp |-> 0,    inf |-> TRUE] >>

\* LEVEL_THRESHOLDS, in the dict's insertion order; float('inf') is the
\* row without an upper limit.
LEVEL_THRESHOLDS ==
    << [level |-> 1, min_xp |-> 0,    max_xp |-> 299,  inf |-> FALSE],
       [level |-> 2, min_xp |-> 300,  max_xp |-> 699,  inf |-> FALSE],
       [level |-> 3, min_xp |-> 700,  max_xp |-> 1199, inf |-> FALSE],
       [level |-> 4, min_xp |-> 1200, max_xp |-> 1999, inf |-> FALSE],
       [level |-> 5, min_xp |-> 2000, max_xp |-> 0,    inf |-> TRUE] >>

FUNDAMENTAL_TOPICS ==
    << "Host Discovery", "Port Scanning", "Service/OS Detection",
       "Timing/Performance", "Evasion", "Output", "Scripting" >>

ADVANCED_TOPICS ==
    << "Firewall/IDS Bypass Advanced", "IPv6 Scanning", "NSE Script Categories",
       "Aggressive & Combo Scanning", "Protocol-Specific Enumeration" >>

ALL_TOPICS == FUNDAMENTAL_TOPICS \o ADVANCED_TOPICS

MAX_HINTS == 2

(***************************************************************************)
(* core/progress_manager.py: calculate_level                               *)
(***************************************************************************)
RECURSIVE LevelScan(_, _)
\* The for loop over LEVEL_THRESHOLDS.items() from row i on; 5 when no row
\* holds xp.
LevelScan(xp_in, i) ==
    IF i > Len(LEVEL_THRESHOLDS) THEN 5
    ELSE LET row == LEVEL_THRESHOLDS[i] IN
         IF row.min_xp <= xp_in /\ (row.inf \/ xp_in <= row.max_xp)
         THEN row.level
         ELSE LevelScan(xp_in, i + 1)

calculate_level(xp_in) == LevelScan(xp_in, 1)

(***************************************************************************)
(* core/mission_generator.py: get_next_topic, get_difficulty               *)
(***************************************************************************)
\* The long list at every level: the gating of the topics by the level
\* tells it from TopicsFor.
TopicsUngated(lvl) == ALL_TOPICS

\* The topic list the level selects.
TopicsFor(lvl) == IF lvl <= 3 THEN FUNDAMENTAL_TOPICS ELSE ALL_TOPICS

\* Python's topics[i]: negative indices count from the end, and an index
\* outside -len..len-1 raises IndexError.
TopicAt(topics, i) ==
    IF 0 <= i /\ i < Len(topics) THEN topics[i + 1]
    ELSE IF -Len(topics) <= i /\ i < 0 THEN topics[Len(topics) + i + 1]
    ELSE "IndexError"

\* The index advanced modulo the length of the longer list whatever the
\* level: the range property of get_next_topic tells it from NextTopicIndex.
NextIndexOfAllTopics(lvl, idx) == (idx + 1) % Len(ALL_TOPICS)

\* (last_topic_index + 1) % len(topics); Python's % with a positive modulus
\* is never negative, as TLA+'s.
NextTopicIndex(lvl, idx) == (idx + 1) % Len(TopicsFor(lvl))

\* get_next_topic: the new last_topic_index and the topic returned.
get_next_topic(lvl, idx) ==
    [index |-> NextTopicIndex(lvl, idx),
     topic |-> TopicAt(TopicsFor(lvl), NextTopicIndex(lvl, idx))]

\* get_difficulty
get_difficulty(lvl) ==
    IF lvl <= 2 THEN "Easy"
    ELSE IF lvl = 3 THEN "Medium"
    ELSE IF lvl = 4 THEN "Hard"
    ELSE "Expert"

(***************************************************************************)
(* Response texts and their clean-up (mission_generator.py 97-106,         *)
(* command_validator.py 66-75).                                            *)
(***************************************************************************)
Whitespace == {" ", "\n"}
\* One backquote character (a TLA+ string cannot hold one).
Backquote == "BACKQUOTE"
Fence == << Backquote, Backquote, Backquote >>
JsonTag == << "j", "s", "o", "n" >>

\* models/types.py: the keys of MissionData and of ValidationResult.
MissionKeys == {"title", "description", "target_ip", "difficulty", "topic_category"}
ValidationKeys == {"correct", "feedback", "simulated_output"}

\* The JSON documents a response may hold, each one token of the text, with
\* the keys of the object it parses to.  "{}" is the empty object.
DocKeys ==
    [ M_FULL       |-> MissionKeys,
      M_NO_TITLE   |-> MissionKeys \ {"title"},
      M_NO_TOPIC   |-> MissionKeys \ {"topic_category"},
      V_CORRECT    |-> ValidationKeys,
      V_INCORRECT  |-> ValidationKeys,
      V_NO_CORRECT |-> ValidationKeys \ {"correct"},
      V_NO_OUTPUT  |-> ValidationKeys \ {"simulated_output"},
      EMPTY_OBJ    |-> {} ]

JsonDocs == DOMAIN DocKeys

\* The value of the "correct" key where the document has one.
DocCorrect == [d \in JsonDocs |-> d \in {"V_CORRECT", "V_NO_OUTPUT"}]

\* A document cut short: not JSON.
Truncated == "TRUNCATED"

\* What the functions return or hold besides a parsed document.
None == "None"
Raised == "Raised"

StartsWith(s, p) == Len(s) >= Len(p) /\ SubSeq(s, 1, Len(p)) = p
EndsWith(s, p) == Len(s) >= Len(p) /\ SubSeq(s, Len(s) - Len(p) + 1, Len(s)) = p

RECURSIVE LStrip(_)
LStrip(s) == IF s # << >> /\ Head(s) \in Whitespace THEN LStrip(Tail(s)) ELSE s

RECURSIVE RStrip(_)
RStrip(s) ==
    IF s # << >> /\ s[Len(s)] \in Whitespace
    THEN RStrip(SubSeq(s, 1, Len(s) - 1))
    ELSE s

\* str.strip()
Strip(s) == RStrip(LStrip(s))

\* The first re.sub (line 100): only a fence followed by the json tag
\* matches, at the start of the text, with the whitespace after it.
StripOpenFence(s) ==
    IF StartsWith(s, Fence \o JsonTag)
    THEN LStrip(SubSeq(s, Len(Fence \o JsonTag) + 1, Len(s)))
    ELSE s

\* The second re.sub (line 101): a fence at the very end of the text, with
\* the whitespace before it.  (The text was stripped, so the end anchor is
\* the end of the text.)
StripCloseFence(s) ==
    IF EndsWith(s, Fence)
    THEN RStrip(SubSeq(s, 1, Len(s) - Len(Fence)))
    ELSE s

\* The clean-up both functions apply to response.text.
CleanResponse(text) == Strip(StripCloseFence(StripOpenFence(Strip(text))))

JSONDecodeError == "JSONDecodeError"

\* json.loads: one JSON document, whitespace around it allowed; anything
\* else raises JSONDecodeError.  Required keys are not looked at.
JsonLoads(s) ==
    IF Len(Strip(s)) = 1 /\ Strip(s)[1] \in JsonDocs
    THEN Strip(s)[1]
    ELSE JSONDecodeError

\* Lines 97-106 / 66-75: the parsed document, or JSONDecodeError.
ParseResponse(text) == JsonLoads(CleanResponse(text))

\* bool(dict): an empty dict is falsy.
Truthy(v) == v \in JsonDocs /\ DocKeys[v] # {}

\* What the model API hands back in place of a text when generate_content
\* (or response.text) raises.
ApiError == << "<exception>" >>

\* The opening and closing markers a response may carry around its document.
Prefixes ==
    { << >>, Fence \o JsonTag \o << "\n" >>, Fence \o JsonTag,
      Fence \o << "\n" >>, Fence }
Suffixes == { << >>, << "\n" >> \o Fence, Fence }

TextsOf(bodies) == { p \o << b >> \o s : p \in Prefixes, b \in bodies, s \in Suffixes }

MissionBodies == {"M_FULL", "M_NO_TITLE", "EMPTY_OBJ", Truncated}
ValidationBodies ==
    {"V_CORRECT", "V_INCORRECT", "V_NO_CORRECT", "V_NO_OUTPUT", "EMPTY_OBJ", Truncated}

\* What one call of generate_content may produce, per prompt.
MissionResponses == TextsOf(MissionBodies) \cup {ApiError}
ValidationResponses == TextsOf(ValidationBodies) \cup {ApiError}

(***************************************************************************)
(* The progress file (progress_manager.py): a JSON object of integers,     *)
(* kept as its members in order, each a key and the integer's text.        *)
(***************************************************************************)
DigitChars == << "0", "1", "2", "3", "4", "5", "6", "7", "8", "9" >>

RECURSIVE NatToText(_)
NatToText(n) ==
    IF n < 10 THEN << DigitChars[n + 1] >>
    ELSE NatToText(n \div 10) \o << DigitChars[(n % 10) + 1] >>

\* json.dump of an int.
IntToText(n) == IF n < 0 THEN << "-" >> \o NatToText(-n) ELSE NatToText(n)

DigitValue(c) == (CHOOSE i \in 1..10 : DigitChars[i] = c) - 1

RECURSIVE TextToNat(_)
TextToNat(t) ==
    IF Len(t) = 1 THEN DigitValue(t[1])
    ELSE 10 * TextToNat(SubSeq(t, 1, Len(t) - 1)) + DigitValue(t[Len(t)])

\* json.load of an int.
TextToInt(t) == IF Head(t) = "-" THEN -TextToNat(Tail(t)) ELSE TextToNat(t)

\* No file on disk; a file that is not JSON (a write cut short).
AbsentFile == [exists |-> FALSE, wellformed |-> FALSE, members |-> << >>]
CorruptFile == [exists |-> TRUE, wellformed |-> FALSE, members |-> << >>]

\* A record without the mission count: the persistence property of the
\* progress tells it from ProgressData.
ProgressDataNoCount(x, l, i, m) ==
    << << "xp", x >>, << "level", l >>, << "last_topic_index", i >> >>

\* NmapDojoApp.save_progress: the dict built from the four fields.
ProgressData(x, l, i, m) ==
    << << "xp", x >>, << "level", l >>,
       << "last_topic_index", i >>, << "missions_completed", m >> >>

\* json.dump(data, f): the file after a write that succeeded.
DumpFile(data) ==
    [exists |-> TRUE, wellformed |-> TRUE,
     members |-> [k \in DOMAIN data |-> << data[k][1], IntToText(data[k][2]) >>]]

\* data.get(key, default) on the loaded object.
GetMember(f, key, default) ==
    IF \E k \in DOMAIN f.members : f.members[k][1] = key
    THEN TextToInt(f.members[CHOOSE k \in DOMAIN f.members : f.members[k][1] = key][2])
    ELSE default

\* ProgressManager.__init__ then load_progress: a missing or unreadable file
\* leaves the constructor's values.
load_progress(f) ==
    IF f.exists /\ f.wellformed
    THEN [xp |-> GetMember(f, "xp", 0),
          level |-> GetMember(f, "level", 1),
          last_topic_index |-> GetMember(f, "last_topic_index", -1),
          missions_completed |-> GetMember(f, "missions_completed", 0)]
    ELSE [xp |-> 0, level |-> 1, last_topic_index |-> -1, missions_completed |-> 0]

\* The progress files the application may start from: none, and one just
\* below the level 4 threshold that holds no missions_completed.
InitFiles ==
    { AbsentFile,
      DumpFile(<< << "xp", 1150 >>, << "level", 3 >>, << "last_topic_index", 5 >> >>) }

(***************************************************************************)
(* NmapDojoApp.award_xp (ui/app.py 587-595)                                *)
(***************************************************************************)
\* An award that shrinks linearly with the hints: the property of the XP
\* steps tells it from XpGained.
XpGainedLinear(hints) == XP_FIRST_TRY - 60 * hints

XpGained(hints) ==
    IF hints = 0 THEN XP_FIRST_TRY
    ELSE IF hints = 1 THEN XP_ONE_HINT
    ELSE XP_TWO_HINTS

\* Limits one above those of the code: the bounds on the model calls of
\* validate_command and of generate_mission tell them from the code's.
ValidateLimitPlusOne == 1 + 1
GenerateLimitPlusOne == 2 + 1

\* The retry limits: "if retry < 2" of generate_mission, "if retry < 1" of
\* validate_command.
GenerateRetryLimit == 2
ValidateRetryLimit == 1

(***************************************************************************)
(* State                                                                   *)
(***************************************************************************)
VARIABLES
    xp, level, last_topic_index, missions_completed,  \* NmapDojoApp progress
    file,               \* the progress file on disk
    last_write,         \* outcome of the last save_progress: "none", "ok", "failed"
    has_model,          \* ai_service.model, mission_generator and command_validator are set
    banner,             \* api_key_banner.visible
    gen_level, gen_index, \* mission_generator.level and .last_topic_index
    current_mission,    \* None or the parsed document
    mission_level,      \* the generator's level when current_mission was generated (0: none)
    hints_used, hint_counter, \* hints_used and the n of "Hints Used: n/2"
    mission_completed,
    explain_visible,    \* explain_btn.visible
    loading,            \* set_loading: the controls are disabled
    threads,            \* the background threads started by page.run_thread
    command_history, history_index,
    terminal,           \* the last line of terminal_output, by what it says
    mission_log         \* history of current_mission: what happened on it

vars == << xp, level, last_topic_index, missions_completed, file, last_write,
           has_model, banner, gen_level, gen_index, current_mission,
           mission_level, hints_used, hint_counter, mission_completed,
           explain_visible, loading, threads, command_history, history_index,
           terminal, mission_log >>

Progress == << xp, level, last_topic_index, missions_completed >>
Disk == << file, last_write >>
Generator == << gen_level, gen_index >>
Mission == << current_mission, mission_level >>
Hints == << hints_used, hint_counter >>
History == << command_history, history_index >>

\* add_terminal_line: a line of the terminal by its kind.  "progress" is the
\* line a handler writes when it starts a thread ("[*] Scanning..." and the
\* like), "notice" a message of a handler that starts none, "info" the end
\* of help, status or clear, "mission", "feedback", "text" and "error" what a
\* thread writes at its end.
Line(kind) == [kind |-> kind, total |-> 0]

\* "[+] XP Awarded! Total: {xp_total}"
XpAwardedLine(xp_total) == [kind |-> "xp_awarded", total |-> xp_total]

\* The history of a mission that was just generated: the hints requested on
\* it and whether a correct command has completed it.  (Not a field of the
\* program: hints_used and mission_completed are its own account of this.)
NewMissionLog == [hints |-> 0, solved |-> FALSE]

ThreadIds == 1..2

\* A free thread slot.  The fields of a thread: kind is what it runs ("gen",
\* "val", "hint", "answer", "explain"), pc where it is ("start", "call": about
\* to call the model, "parse": holding the response, "ret": generate_mission
\* or validate_command has returned), retry the retry argument, calls the
\* model calls made, resp the response text, ret the value returned (None,
\* Raised or the parsed document), topic the topic of the prompt.
NoThread ==
    [kind |-> "none", pc |-> "none", retry |-> 0, calls |-> 0,
     resp |-> << >>, ret |-> None, topic |-> "NoTopic"]

NewThread(kind) == [NoThread EXCEPT !.kind = kind, !.pc = "start"]

FreeSlots(th) == {t \in ThreadIds : th[t].kind = "none"}

\* page.run_thread(_run): the thread takes the lowest free slot.
Spawn(th, kind) ==
    [th EXCEPT ![CHOOSE t \in FreeSlots(th) : \A u \in FreeSlots(th) : t <= u] =
                   NewThread(kind)]

\* NmapDojoApp.__init__: load_progress, setup_ui, initialize_api.  With the
\* API configured, generate_mission_async has run and its thread is started;
\* without, show_api_key_banner has written its line.
AppStart(f, api_ok) ==
    LET p == load_progress(f) IN
    [xp |-> p.xp, level |-> p.level, last_topic_index |-> p.last_topic_index,
     missions_completed |-> p.missions_completed,
     has_model |-> api_ok, banner |-> ~api_ok,
     gen_level |-> IF api_ok THEN p.level ELSE 0,
     gen_index |-> IF api_ok THEN p.last_topic_index ELSE 0,
     loading |-> api_ok,
     terminal |-> IF api_ok THEN Line("progress") ELSE Line("notice"),
     threads |-> IF api_ok THEN Spawn([t \in ThreadIds |-> NoThread], "gen")
                 ELSE [t \in ThreadIds |-> NoThread]]

\* The state after __init__ with the progress file f.
Started(f, api_ok) ==
    LET s == AppStart(f, api_ok) IN
    /\ file = f
    /\ last_write = "none"
    /\ xp = s.xp
    /\ level = s.level
    /\ last_topic_index = s.last_topic_index
    /\ missions_completed = s.missions_completed
    /\ has_model = s.has_model
    /\ banner = s.banner
    /\ gen_level = s.gen_level
    /\ gen_index = s.gen_index
    /\ current_mission = None
    /\ mission_level = 0
    /\ hints_used = 0
    /\ hint_counter = 0
    /\ mission_completed = FALSE
    /\ explain_visible = FALSE
    /\ loading = s.loading
    /\ threads = s.threads
    /\ command_history = << >>
    /\ history_index = -1
    /\ terminal = s.terminal
    /\ mission_log = NewMissionLog

Init == \E f \in InitFiles : Started(f, TRUE)

(***************************************************************************)
(* The command line (ui/app.py 464-530, config/constants.py).              *)
(***************************************************************************)
MAX_COMMAND_HISTORY == 10

\* What the user may have typed when Enter is pressed.
TypedInputs == {"", " ", "Status", "ls", "nmap -sn", " nmap -sn "}

\* str.strip() on the typed inputs.
StripInput(raw) ==
    IF raw = " " THEN ""
    ELSE IF raw = " nmap -sn " THEN "nmap -sn"
    ELSE raw

\* command.lower() in ['help', 'clear', 'status']
IsSpecialCommand(command) == command \in {"help", "clear", "status", "Status"}

\* command.startswith('nmap')
IsNmapCommand(command) == command = "nmap -sn"

\* A history that drops its newest entry when it is full.
DropNewest(h) ==
    IF Len(h) > MAX_COMMAND_HISTORY THEN SubSeq(h, 1, Len(h) - 1) ELSE h

\* if len(self.command_history) > MAX_COMMAND_HISTORY: pop(0)
DropOldest(h) == IF Len(h) > MAX_COMMAND_HISTORY THEN Tail(h) ELSE h

\* Lines 475-479: the history after the command.
HistoryAfter(h, command) ==
    IF command # "" /\ (h = << >> \/ h[Len(h)] # command)
    THEN DropOldest(Append(h, command))
    ELSE h

(***************************************************************************)
(* UI handlers (ui/app.py).  A control that set_loading disabled takes no  *)
(* event; the Connect button of the API key banner is never disabled.      *)
(***************************************************************************)
\* generate_mission_async up to page.run_thread: the loading state, the reset
\* of the mission flags and of the hint counter, and the new thread.
StartGenerate ==
    /\ loading' = TRUE
    /\ mission_completed' = FALSE
    /\ hints_used' = 0
    /\ hint_counter' = 0
    /\ explain_visible' = FALSE
    /\ terminal' = Line("progress")
    /\ threads' = Spawn(threads, "gen")

\* on_new_mission
OnNewMission ==
    /\ ~loading
    /\ StartGenerate
    /\ UNCHANGED << Progress, Disk, has_model, banner, Generator, Mission,
                    History, mission_log >>

\* on_api_key_submit with a key typed in: initialize_api succeeds or not.
OnApiKeySubmit ==
    /\ banner
    /\ \E success \in BOOLEAN :
        IF success
        THEN /\ has_model' = TRUE
             /\ gen_level' = level
             /\ gen_index' = last_topic_index
             /\ banner' = FALSE
             /\ StartGenerate
             /\ UNCHANGED << Progress, Disk, Mission, History, mission_log >>
        ELSE /\ terminal' = Line("error")
             /\ UNCHANGED << Progress, Disk, has_model, banner, Generator,
                             Mission, Hints, mission_completed, explain_visible,
                             loading, threads, History, mission_log >>

\* on_command_submit with the typed input raw: an empty command is refused;
\* any other one goes to the history; help, clear and status are answered;
\* an nmap command with a mission to check it against starts the thread of
\* validate_command_async.
on_command_submit(raw) ==
    LET command == StripInput(raw) IN
    IF command = ""
    THEN /\ terminal' = Line("notice")
         /\ UNCHANGED << Progress, Disk, has_model, banner, Generator, Mission,
                         Hints, mission_completed, explain_visible, loading,
                         threads, History, mission_log >>
    ELSE /\ command_history' = HistoryAfter(command_history, command)
         /\ history_index' = Len(HistoryAfter(command_history, command))
         /\ IF IsSpecialCommand(command)
            THEN /\ terminal' = Line("info")
                 /\ UNCHANGED << loading, threads >>
            ELSE IF ~IsNmapCommand(command) \/ current_mission = None
            THEN /\ terminal' = Line("notice")
                 /\ UNCHANGED << loading, threads >>
            ELSE /\ terminal' = Line("progress")
                 /\ loading' = TRUE
                 /\ threads' = Spawn(threads, "val")
         /\ UNCHANGED << Progress, Disk, has_model, banner, Generator, Mission,
                         Hints, mission_completed, explain_visible, mission_log >>

\* on_key_down, the keyboard handler of the page: Arrow Up steps back in the
\* history, Arrow Down forward and, past the newest entry, to the empty
\* input.
OnKeyDown(key) ==
    /\ IF key = "Arrow Up"
       THEN history_index' = IF command_history # << >> /\ history_index > 0
                             THEN history_index - 1 ELSE history_index
       ELSE history_index' = IF history_index < Len(command_history) - 1
                             THEN history_index + 1 ELSE Len(command_history)
    /\ UNCHANGED << Progress, Disk, has_model, banner, Generator, Mission, Hints,
                    mission_completed, explain_visible, loading, threads,
                    command_history, terminal, mission_log >>

\* The commands of a session.
SessionInputs == {"nmap -sn"}

\* Enter in the command input.
OnCommandSubmit ==
    /\ ~loading
    /\ missions_completed < MaxMissionsCompleted
    /\ \E raw \in SessionInputs : on_command_submit(raw)

\* on_get_hint: without a mission, or with the mission completed, a message
\* only; else the hint is counted and get_hint or, from MAX_HINTS hints on,
\* get_full_answer starts its thread.
OnGetHint ==
    /\ ~loading
    /\ mission_log.hints < MaxHintClicks
    /\ IF current_mission = None \/ mission_completed
       THEN /\ terminal' = Line("notice")
            /\ UNCHANGED << Progress, Disk, has_model, banner, Generator,
                            Mission, Hints, mission_completed, explain_visible,
                            loading, threads, History, mission_log >>
       ELSE /\ hints_used' = hints_used + 1
            /\ hint_counter' = hints_used + 1
            /\ mission_log' = [mission_log EXCEPT !.hints = @ + 1]
            /\ loading' = TRUE
            /\ terminal' = Line("progress")
            /\ threads' = Spawn(threads, IF hints_used + 1 >= MAX_HINTS
                                         THEN "answer" ELSE "hint")
            /\ UNCHANGED << Progress, Disk, has_model, banner, Generator, Mission,
                            mission_completed, explain_visible, History >>

\* on_explain_why: the button is there after a failed validation.
OnExplainWhy ==
    /\ ~loading
    /\ explain_visible
    /\ IF current_mission = None
       THEN UNCHANGED vars
       ELSE /\ loading' = TRUE
            /\ terminal' = Line("progress")
            /\ threads' = Spawn(threads, "explain")
            /\ UNCHANGED << Progress, Disk, has_model, banner, Generator, Mission,
                            Hints, mission_completed, explain_visible, History,
                            mission_log >>

(***************************************************************************)
(* The background threads.                                                 *)
(***************************************************************************)
\* A _run without its finally clause: the thread is gone and the loading
\* state stays.
EndThreadStillLoading(t) ==
    /\ loading' = loading
    /\ threads' = [threads EXCEPT ![t] = NoThread]

\* The end of every _run: finally set_loading(False), and the thread is gone.
EndThread(t) ==
    /\ loading' = FALSE
    /\ threads' = [threads EXCEPT ![t] = NoThread]

\* What lines 96-106 of generate_mission and 65-74 of validate_command make
\* of one model call: the parsed document, JSONDecodeError, or Raised when the
\* call itself raises.
ResponseValue(resp) ==
    IF resp = ApiError THEN Raised ELSE ParseResponse(resp)

\* The values the model's responses to a mission prompt and to a validation
\* prompt lead to.
MissionValues == { ResponseValue(r) : r \in MissionResponses }
ValidationValues == { ResponseValue(r) : r \in ValidationResponses }

\* Lines 106-120 of generate_mission, 74-87 of validate_command, for a thread
\* whose attempt gave v: a parsed document is returned; a JSONDecodeError or
\* another exception is retried while retry < limit, and then the first
\* returns None and the second is raised again.
AfterResponse(th, v, limit) ==
    IF v \in JsonDocs
    THEN [th EXCEPT !.pc = "ret", !.ret = v]
    ELSE IF th.retry < limit
    THEN [th EXCEPT !.pc = "call", !.retry = @ + 1]
    ELSE [th EXCEPT !.pc = "ret",
                    !.ret = IF v = JSONDecodeError THEN None ELSE Raised]

\* The keys update_mission_display and the [NEW MISSION] lines index.
DisplayedKeys == {"title", "description", "target_ip"}

\* The keys the prompts of validate_command index; those of get_hint,
\* get_full_answer and get_explanation.
PromptKeys == {"title", "description", "target_ip", "difficulty", "topic_category"}
AuxPromptKeys == {"title", "description", "target_ip", "topic_category"}

\* _run of generate_mission_async, lines 400-413, with the value ret that
\* generate_mission returned and the generator's index idx: a truthy mission
\* becomes the current one and idx the application's index, before
\* update_mission_display and the [NEW MISSION] lines read the keys (a
\* KeyError is caught and reported, as any exception is).  None and the
\* empty object write nothing.
GenTail(t, ret, idx) ==
    /\ IF Truthy(ret)
       THEN /\ current_mission' = ret
            /\ last_topic_index' = idx
            /\ mission_level' = gen_level
            /\ mission_log' = NewMissionLog
            /\ terminal' = IF DisplayedKeys \subseteq DocKeys[ret]
                           THEN Line("mission") ELSE Line("error")
       ELSE /\ terminal' = IF ret = Raised THEN Line("error") ELSE terminal
            /\ UNCHANGED << current_mission, last_topic_index, mission_level,
                            mission_log >>
    /\ EndThread(t)
    /\ UNCHANGED << xp, level, missions_completed, Disk, has_model, banner,
                    gen_level, Hints, mission_completed, explain_visible,
                    History >>

\* result.get('correct', False)
IsCorrect(v) == "correct" \in DocKeys[v] /\ DocCorrect[v]

\* ProgressManager.save_progress: the file after the write, which succeeds
\* or raises IOError (caught); a failed write leaves the file as it was or
\* cut short.
FilesAfterWrite(data, ok) ==
    IF ok THEN {DumpFile(data)} ELSE {file, CorruptFile}

\* _run of validate_command_async, lines 546-553, with the value ret that
\* validate_command returned.  A truthy result goes to
\* process_validation_result: a correct one awards XP (award_xp), completes
\* the mission, counts it, saves the progress and reports the total; another
\* one shows the feedback and the Explain button.  None and the empty
\* object write nothing; an exception is reported.
ValTail(t, ret) ==
    /\ IF Truthy(ret) /\ IsCorrect(ret)
       THEN /\ xp' = xp + XpGained(hints_used)
            /\ level' = calculate_level(xp + XpGained(hints_used))
            /\ mission_completed' = TRUE
            /\ missions_completed' = missions_completed + 1
            /\ mission_log' = [mission_log EXCEPT !.solved = TRUE]
            /\ \E ok \in BOOLEAN :
                 /\ file' \in FilesAfterWrite(
                        ProgressData(xp', level', last_topic_index, missions_completed'),
                        ok)
                 /\ last_write' = IF ok THEN "ok" ELSE "failed"
            /\ terminal' = XpAwardedLine(xp')
            /\ explain_visible' = FALSE
       ELSE /\ explain_visible' = IF Truthy(ret) THEN TRUE ELSE explain_visible
            /\ terminal' = IF Truthy(ret) THEN Line("feedback")
                           ELSE IF ret = Raised THEN Line("error")
                           ELSE terminal
            /\ UNCHANGED << xp, level, mission_completed, missions_completed,
                            Disk, mission_log >>
    /\ EndThread(t)
    /\ UNCHANGED << last_topic_index, has_model, banner, Generator, Mission,
                    Hints, History >>

\* _run of generate_mission_async (395-399) up to the first model call: with
\* a generator, it is given the current level and topic index; without one,
\* the thread ends and nothing is written.
GenStart(t) ==
    /\ threads[t].kind = "gen" /\ threads[t].pc = "start"
    /\ IF has_model
       THEN /\ gen_level' = level
            /\ gen_index' = last_topic_index
            /\ threads' = [threads EXCEPT ![t].pc = "call"]
            /\ UNCHANGED loading
       ELSE /\ EndThread(t)
            /\ UNCHANGED Generator
    /\ UNCHANGED << Progress, Disk, has_model, banner, Mission, Hints,
                    mission_completed, explain_visible, History, terminal,
                    mission_log >>

\* One attempt of generate_mission, lines 76-120: get_next_topic advances
\* the generator's index (on every attempt), the model is called and its
\* response handled; when generate_mission returns, _run goes on to its end.
GenCall(t) ==
    /\ threads[t].kind = "gen" /\ threads[t].pc = "call"
    /\ LET nt == get_next_topic(gen_level, gen_index) IN
       /\ gen_index' = nt.index
       /\ IF nt.topic = "IndexError"
          THEN GenTail(t, Raised, nt.index)
          ELSE \E v \in MissionValues :
                 LET th == AfterResponse([threads[t] EXCEPT !.calls = @ + 1],
                                         v, GenerateRetryLimit) IN
                 IF th.pc = "ret"
                 THEN GenTail(t, th.ret, nt.index)
                 ELSE /\ threads' = [threads EXCEPT ![t] = th]
                      /\ UNCHANGED << Progress, Disk, has_model, banner, gen_level,
                                      Mission, Hints, mission_completed,
                                      explain_visible, loading, History,
                                      terminal, mission_log >>

\* _run of validate_command_async (544-545) up to the first model call.  The
\* prompt of validate_command reads all five keys of the mission before the
\* try: a missing one is a KeyError that reaches _run.
ValStart(t) ==
    /\ threads[t].kind = "val" /\ threads[t].pc = "start"
    /\ IF has_model /\ current_mission # None
       THEN IF PromptKeys \subseteq DocKeys[current_mission]
            THEN /\ threads' = [threads EXCEPT ![t].pc = "call"]
                 /\ UNCHANGED << Progress, Disk, has_model, banner, Generator,
                                 Mission, Hints, mission_completed,
                                 explain_visible, loading, History, terminal,
                                 mission_log >>
            ELSE ValTail(t, Raised)
       ELSE ValTail(t, None)

\* One attempt of validate_command, lines 63-87: the model is called and its
\* response handled; when validate_command returns, _run goes on to its end.
ValCall(t) ==
    /\ threads[t].kind = "val" /\ threads[t].pc = "call"
    /\ \E v \in ValidationValues :
         LET th == AfterResponse([threads[t] EXCEPT !.calls = @ + 1],
                                 v, ValidateRetryLimit) IN
         IF th.pc = "ret"
         THEN ValTail(t, th.ret)
         ELSE /\ threads' = [threads EXCEPT ![t] = th]
              /\ UNCHANGED << Progress, Disk, has_model, banner, Generator, Mission,
                              Hints, mission_completed, explain_visible, loading,
                              History, terminal, mission_log >>

\* _run of get_hint, get_full_answer and on_explain_why: the text of the
\* model is shown, or the exception reported: that of the model call, of a
\* missing model, or the KeyError of a mission without a key of the prompt.
AuxFinish(t) ==
    /\ threads[t].kind \in {"hint", "answer", "explain"}
    /\ \E ok \in BOOLEAN :
         terminal' = IF /\ ok
                        /\ has_model
                        /\ current_mission # None
                        /\ AuxPromptKeys \subseteq DocKeys[current_mission]
                     THEN Line("text") ELSE Line("error")
    /\ EndThread(t)
    /\ UNCHANGED << Progress, Disk, has_model, banner, Generator, Mission,
                    Hints, mission_completed, explain_visible, History,
                    mission_log >>

Next ==
    \/ OnNewMission
    \/ OnCommandSubmit
    \/ OnGetHint
    \/ OnExplainWhy
    \/ \E t \in ThreadIds : GenStart(t)
    \/ \E t \in ThreadIds : GenCall(t)
    \/ \E t \in ThreadIds : ValStart(t)
    \/ \E t \in ThreadIds : ValCall(t)
    \/ \E t \in ThreadIds : AuxFinish(t)

\* A session whose API key is configured at startup: initialize_api succeeds
\* in __init__, the banner is never shown, and every handler that starts a
\* thread is behind set_loading.  (OnApiKeySubmit belongs to the sessions
\* that start without a key.)
Spec == Init /\ [][Next]_vars

\* One step of the background thread t.
ThreadStep(t) ==
    GenStart(t) \/ GenCall(t) \/ ValStart(t) \/ ValCall(t) \/ AuxFinish(t)

\* The same session with the threads that page.run_thread started scheduled:
\* a thread that can take a step takes it in the end, the model call of the
\* step returning text or raising.
SpecLive == Init /\ [][Next]_vars /\ \A t \in ThreadIds : WF_vars(ThreadStep(t))

(***************************************************************************)
(* calculate_level on its own: a call with any XP total of the range.      *)
(***************************************************************************)
\* Everything but the progress counters and the threads, with no API, no
\* mission and no file.
NoSession ==
    /\ file = AbsentFile
    /\ last_write = "none"
    /\ has_model = FALSE
    /\ banner = TRUE
    /\ gen_level = 0
    /\ gen_index = 0
    /\ current_mission = None
    /\ mission_level = 0
    /\ hints_used = 0
    /\ hint_counter = 0
    /\ mission_completed = FALSE
    /\ explain_visible = FALSE
    /\ loading = FALSE
    /\ command_history = << >>
    /\ history_index = -1
    /\ terminal = Line("notice")
    /\ mission_log = NewMissionLog

\* One thread of the given kind, about to start.
OneThread(kind) ==
    [t \in ThreadIds |-> IF t = 1 THEN NewThread(kind) ELSE NoThread]

InitLevel ==
    /\ xp \in 0..MaxXpInput
    /\ level = 1
    /\ last_topic_index = -1
    /\ missions_completed = 0
    /\ NoSession
    /\ threads = OneThread("level")

\* self.level = self.progress_manager.calculate_level(self.xp)
CalcLevel(t) ==
    /\ threads[t].kind = "level" /\ threads[t].pc = "start"
    /\ level' = calculate_level(xp)
    /\ threads' = [threads EXCEPT ![t].pc = "ret"]
    /\ UNCHANGED << xp, last_topic_index, missions_completed, Disk, has_model,
                    banner, Generator, Mission, Hints, mission_completed,
                    explain_visible, loading, History, terminal, mission_log >>

NextLevel == \E t \in ThreadIds : CalcLevel(t)

SpecLevel == InitLevel /\ [][NextLevel]_vars

\* C8: calculate_level implements the five-row threshold table.  Once the
\* level of an XP total xp >= 0 is computed, it is 1 for 0..299, 2 for
\* 300..699, 3 for 700..1199, 4 for 1200..1999 and 5 from 2000 on; it lies in
\* 1..5; and the level of xp + 1 is not below it.
C8_LevelTable ==
    \A t \in ThreadIds :
        threads[t].kind = "level" /\ threads[t].pc = "ret" =>
            /\ level = (IF xp <= 299 THEN 1
                        ELSE IF xp <= 699 THEN 2
                        ELSE IF xp <= 1199 THEN 3
                        ELSE IF xp <= 1999 THEN 4
                        ELSE 5)
            /\ level \in 1..5
            /\ level <= calculate_level(xp + 1)

\* The level of an XP total in the open-ended last row has been computed.
C8_Witness ==
    \E t \in ThreadIds :
        /\ threads[t].kind = "level" /\ threads[t].pc = "ret"
        /\ xp > 2000
        /\ level = 5

(***************************************************************************)
(* One request followed step by step: generate_mission_async or            *)
(* validate_command_async from the start of its thread to its end, with    *)
(* the response text of every model call in the thread's record.  The      *)
(* progress loaded at startup is at any level, with any topic index of the *)
(* range in the file.                                                      *)
(***************************************************************************)
InitRequest ==
    \E k \in {"gen", "val"}, l \in 1..5, i \in (-MaxStartIndex)..MaxStartIndex :
        LET f == DumpFile(ProgressData(LEVEL_THRESHOLDS[l].min_xp, l, i, 0))
            s == AppStart(f, TRUE) IN
        /\ file = f
        /\ last_write = "none"
        /\ xp = s.xp
        /\ level = s.level
        /\ last_topic_index = s.last_topic_index
        /\ missions_completed = s.missions_completed
        /\ has_model = TRUE
        /\ banner = FALSE
        /\ gen_level = s.gen_level
        /\ gen_index = s.gen_index
        /\ current_mission = IF k = "val" THEN "M_FULL" ELSE None
        /\ mission_level = IF k = "val" THEN s.level ELSE 0
        /\ hints_used = 0
        /\ hint_counter = 0
        /\ mission_completed = FALSE
        /\ explain_visible = FALSE
        /\ loading = TRUE
        /\ threads = OneThread(k)
        /\ command_history = IF k = "val" THEN << "nmap -sn" >> ELSE << >>
        /\ history_index = IF k = "val" THEN 1 ELSE -1
        /\ terminal = Line("progress")
        /\ mission_log = NewMissionLog

\* generate_mission, lines 72-96: get_next_topic and get_difficulty for the
\* prompt, then the model call.  An IndexError of get_next_topic is outside
\* the try and leaves generate_mission.
ReqGenAttempt(t) ==
    /\ threads[t].kind = "gen" /\ threads[t].pc = "call"
    /\ LET nt == get_next_topic(gen_level, gen_index) IN
       /\ gen_index' = nt.index
       /\ IF nt.topic = "IndexError"
          THEN threads' = [threads EXCEPT ![t].pc = "ret", ![t].ret = Raised,
                                          ![t].topic = nt.topic]
          ELSE \E r \in MissionResponses :
                 threads' = [threads EXCEPT ![t].pc = "parse", ![t].resp = r,
                                            ![t].calls = @ + 1,
                                            ![t].topic = nt.topic]
    /\ UNCHANGED << Progress, Disk, has_model, banner, gen_level, Mission, Hints,
                    mission_completed, explain_visible, loading, History,
                    terminal, mission_log >>

\* generate_mission, lines 97-120, on the response held.
ReqGenParse(t) ==
    /\ threads[t].kind = "gen" /\ threads[t].pc = "parse"
    /\ threads' = [threads EXCEPT
                      ![t] = AfterResponse(@, ResponseValue(@.resp),
                                           GenerateRetryLimit)]
    /\ UNCHANGED << Progress, Disk, has_model, banner, Generator, Mission, Hints,
                    mission_completed, explain_visible, loading, History,
                    terminal, mission_log >>

\* generate_mission has returned (or raised): the rest of _run.
ReqGenReturn(t) ==
    /\ threads[t].kind = "gen" /\ threads[t].pc = "ret"
    /\ GenTail(t, threads[t].ret, gen_index)
    /\ UNCHANGED gen_index

\* validate_command, line 65: the model call.
ReqValAttempt(t) ==
    /\ threads[t].kind = "val" /\ threads[t].pc = "call"
    /\ \E r \in ValidationResponses :
         threads' = [threads EXCEPT ![t].pc = "parse", ![t].resp = r,
                                    ![t].calls = @ + 1]
    /\ UNCHANGED << Progress, Disk, has_model, banner, Generator, Mission, Hints,
                    mission_completed, explain_visible, loading, History,
                    terminal, mission_log >>

\* validate_command, lines 66-87, on the response held.
ReqValParse(t) ==
    /\ threads[t].kind = "val" /\ threads[t].pc = "parse"
    /\ threads' = [threads EXCEPT
                      ![t] = AfterResponse(@, ResponseValue(@.resp),
                                           ValidateRetryLimit)]
    /\ UNCHANGED << Progress, Disk, has_model, banner, Generator, Mission, Hints,
                    mission_completed, explain_visible, loading, History,
                    terminal, mission_log >>

\* validate_command has returned (or raised): the rest of _run.
ReqValReturn(t) ==
    /\ threads[t].kind = "val" /\ threads[t].pc = "ret"
    /\ ValTail(t, threads[t].ret)

NextRequest ==
    \/ \E t \in ThreadIds : GenStart(t)
    \/ \E t \in ThreadIds : ReqGenAttempt(t)
    \/ \E t \in ThreadIds : ReqGenParse(t)
    \/ \E t \in ThreadIds : ReqGenReturn(t)
    \/ \E t \in ThreadIds : ValStart(t)
    \/ \E t \in ThreadIds : ReqValAttempt(t)
    \/ \E t \in ThreadIds : ReqValParse(t)
    \/ \E t \in ThreadIds : ReqValReturn(t)

SpecRequest == InitRequest /\ [][NextRequest]_vars

\* C1: a response that is a JSON object with exactly the required keys,
\* with or without an opening marker (with or without the language tag) and
\* with or without a closing marker, is parsed and returned on the first
\* attempt, with no retry: once the first response of a request has been
\* handled, the function has returned the object it holds.
C1_FencedObjectReturnedAtOnce ==
    \A t \in ThreadIds :
        \A p \in Prefixes, sfx \in Suffixes,
           d \in {"M_FULL", "V_CORRECT", "V_INCORRECT"} :
            /\ threads[t].kind \in {"gen", "val"}
            /\ threads[t].calls = 1
            /\ threads[t].pc \in {"call", "ret"}
            /\ threads[t].resp = p \o << d >> \o sfx
            => /\ threads[t].pc = "ret"
               /\ threads[t].ret = d
               /\ threads[t].retry = 0

\* C2: a response that is well-formed JSON but lacks a required key is a
\* parse failure: generate_mission and validate_command never return an
\* object without all the required keys, and such an object never becomes
\* the current mission.
C2_MissingKeyIsParseFailure ==
    /\ \A t \in ThreadIds :
           threads[t].pc = "ret" /\ threads[t].ret \in JsonDocs =>
               /\ threads[t].kind = "gen" => MissionKeys \subseteq DocKeys[threads[t].ret]
               /\ threads[t].kind = "val" => ValidationKeys \subseteq DocKeys[threads[t].ret]
    /\ current_mission # None => MissionKeys \subseteq DocKeys[current_mission]

\* C3: validate_command makes at most two model calls per command; a second
\* call is the one retry; a first response that is malformed JSON is retried;
\* and when the response of the retry is malformed too, None is returned.
C3_ValidateAtMostTwoCalls ==
    \A t \in ThreadIds :
        threads[t].kind = "val" =>
            /\ threads[t].calls <= 2
            /\ threads[t].calls = 2 => threads[t].retry = 1
            /\ /\ threads[t].pc \in {"call", "ret"}
               /\ threads[t].calls = 1
               /\ ResponseValue(threads[t].resp) = JSONDecodeError
               => threads[t].pc = "call" /\ threads[t].retry = 1
            /\ /\ threads[t].pc = "ret"
               /\ threads[t].calls = 2
               /\ ResponseValue(threads[t].resp) = JSONDecodeError
               => threads[t].ret = None

\* validate_command has given up after a malformed retry.
C3_Witness ==
    \E t \in ThreadIds :
        /\ threads[t].kind = "val" /\ threads[t].pc = "ret"
        /\ threads[t].calls = 2
        /\ ResponseValue(threads[t].resp) = JSONDecodeError
        /\ threads[t].ret = None

\* C4, as stated: generate_mission makes at most two model calls per request
\* and returns None when the second response is malformed too.
C4_GenerateAtMostTwoCalls ==
    \A t \in ThreadIds :
        threads[t].kind = "gen" =>
            /\ threads[t].calls <= 2
            /\ /\ threads[t].pc \in {"call", "ret"}
               /\ threads[t].calls = 2
               /\ ResponseValue(threads[t].resp) = JSONDecodeError
               => threads[t].pc = "ret" /\ threads[t].ret = None

\* C4, amended: generate_mission retries up to twice.  It makes at most
\* three model calls per request; a malformed first or second response is
\* retried; and when the third response is malformed too, None is returned.
C4_GenerateAtMostThreeCalls ==
    \A t \in ThreadIds :
        threads[t].kind = "gen" =>
            /\ threads[t].calls <= 3
            /\ threads[t].calls = threads[t].retry + 1 \/ threads[t].pc \in {"start", "call"}
            /\ /\ threads[t].pc \in {"call", "ret"}
               /\ threads[t].calls \in {1, 2}
               /\ ResponseValue(threads[t].resp) = JSONDecodeError
               => threads[t].pc = "call" /\ threads[t].retry = threads[t].calls
            /\ /\ threads[t].pc = "ret"
               /\ threads[t].calls = 3
               /\ ResponseValue(threads[t].resp) = JSONDecodeError
               => threads[t].ret = None

\* generate_mission has given up after a malformed third response.
C4_Witness ==
    \E t \in ThreadIds :
        /\ threads[t].kind = "gen" /\ threads[t].pc = "ret"
        /\ threads[t].calls = 3
        /\ ResponseValue(threads[t].resp) = JSONDecodeError
        /\ threads[t].ret = None

\* C6: the topic index stays in range.  Once get_next_topic has been called,
\* the generator's last_topic_index lies in 0..len(topics)-1 for the list of
\* the generator's level and the topic returned is the entry at that index,
\* whatever index the request started from.
C6_TopicIndexInRange ==
    \A t \in ThreadIds :
        threads[t].kind = "gen" /\ threads[t].topic # NoThread.topic =>
            /\ gen_index \in 0..(Len(TopicsFor(gen_level)) - 1)
            /\ threads[t].topic = TopicsFor(gen_level)[gen_index + 1]

\* get_next_topic has been called at a level of the short list with an
\* index left over from the long one, and at the initial index -1.
C6_Witness ==
    \E t \in ThreadIds :
        /\ threads[t].kind = "gen" /\ threads[t].pc = "parse"
        /\ threads[t].calls = 1
        /\ gen_level <= 3
        /\ last_topic_index >= Len(FUNDAMENTAL_TOPICS)
        /\ gen_index \in 0..(Len(FUNDAMENTAL_TOPICS) - 1)

\* C5: XP is monotonically non-decreasing.  No step of the application
\* lowers the XP total, and a step that changes it is the end of a
\* validation thread that awards +100, +50 or +25.
C5_XpMonotone ==
    [][ /\ xp' >= xp
        /\ xp' # xp =>
              /\ xp' - xp \in {100, 50, 25}
              /\ \E t \in ThreadIds :
                    threads[t].kind = "val" /\ threads'[t] = NoThread
              /\ mission_completed' ]_vars

\* Two missions were completed from no progress, one at the first try and
\* the last one after two hints.
C5_Witness ==
    /\ missions_completed = 2
    /\ xp = 100 + 25
    /\ hints_used = 2
    /\ mission_completed

\* C7: topics rotate round-robin.  When a mission is generated after another
\* one of the same level, its topic index is the index of that one plus 1
\* modulo the length of the level's topic list.
C7_RoundRobin ==
    [][ /\ last_topic_index' # last_topic_index
        /\ mission_level # 0
        /\ mission_level' = mission_level
        => last_topic_index' =
               (last_topic_index + 1) % Len(TopicsFor(mission_level)) ]_vars

\* C9: progress survives a restart.  In the step that processes a correct
\* validation and writes the file, the new XP total holds the award and the
\* mission count is one more; the file holds the four values in memory; and
\* load_progress on that file gives back exactly those four values.
C9_ProgressPersisted ==
    [][ missions_completed' # missions_completed /\ last_write' = "ok" =>
          /\ xp' = xp + XpGained(hints_used)
          /\ missions_completed' = missions_completed + 1
          /\ file' = DumpFile(<< << "xp", xp' >>, << "level", level' >>,
                                 << "last_topic_index", last_topic_index' >>,
                                 << "missions_completed", missions_completed' >> >>)
          /\ load_progress(file') =
                [xp |-> xp', level |-> level',
                 last_topic_index |-> last_topic_index',
                 missions_completed |-> missions_completed'] ]_vars

\* A correct validation has just been processed and saved, and the file
\* loads to the values in memory.
C9_Witness ==
    /\ last_write = "ok"
    /\ mission_completed
    /\ missions_completed >= 1
    /\ ~loading
    /\ load_progress(file) =
          [xp |-> xp, level |-> level, last_topic_index |-> last_topic_index,
           missions_completed |-> missions_completed]

\* C10: at most MAX_HINTS hints are counted per mission: hints_used and the
\* n of the "Hints Used: n/2" counter never exceed MAX_HINTS.
C10_HintsCapped ==
    /\ hints_used <= MAX_HINTS
    /\ hint_counter <= MAX_HINTS

(***************************************************************************)
(* The command line on its own: a session without an API key, in which     *)
(* any of the typed inputs is submitted and the arrow keys walk through    *)
(* the history.                                                            *)
(***************************************************************************)
InitHistory == Started(AbsentFile, FALSE)

SubmitTyped == ~loading /\ \E raw \in TypedInputs : on_command_submit(raw)

NextHistory ==
    \/ SubmitTyped
    \/ \E key \in {"Arrow Up", "Arrow Down"} : OnKeyDown(key)

SpecHistory == InitHistory /\ [][NextHistory]_vars

\* C11: the command history never holds more than MAX_COMMAND_HISTORY (10)
\* entries.  Submitting a command that differs from the most recent entry
\* appends it, dropping the oldest entry when ten are held and keeping the
\* others in order; submitting the most recent entry again, or nothing,
\* leaves the history as it is; and no step changes it in another way.
C11_HistoryBounded ==
    /\ Len(command_history) <= 10
    /\ \A c \in {"Status", "ls", "nmap -sn"} :
          ENABLED ( /\ on_command_submit(c)
                    /\ command_history' =
                          IF command_history # << >>
                             /\ command_history[Len(command_history)] = c
                          THEN command_history
                          ELSE IF Len(command_history) = 10
                          THEN Tail(command_history) \o << c >>
                          ELSE command_history \o << c >> )
    /\ ENABLED (on_command_submit(" ") /\ command_history' = command_history)
    /\ \A i \in 1..(Len(command_history) - 1) :
          command_history[i] # command_history[i + 1]

\* Ten commands are held, of which the newest is an nmap command and the
\* oldest a command that is not one.
C11_Witness ==
    /\ Len(command_history) = 10
    /\ command_history[1] = "ls"
    /\ command_history[2] = "Status"
    /\ command_history[9] = "ls"
    /\ command_history[10] = "nmap -sn"

\* C12: mission topics are gated by level.  Once get_next_topic has chosen
\* the topic of a prompt: at level 3 or lower it is one of the 7 fundamental
\* topics; it is an advanced topic only at level 4 or higher; and at level 4
\* or higher it is the entry of the 12 topics at the generator's index.
C12_TopicsGatedByLevel ==
    \A t \in ThreadIds :
        threads[t].kind = "gen" /\ threads[t].topic # NoThread.topic =>
            /\ Len(FUNDAMENTAL_TOPICS) = 7 /\ Len(ALL_TOPICS) = 12
            /\ level <= 3 =>
                  \E i \in 1..7 : threads[t].topic = FUNDAMENTAL_TOPICS[i]
            /\ (\E i \in 1..Len(ADVANCED_TOPICS) :
                   threads[t].topic = ADVANCED_TOPICS[i]) => level >= 4
            /\ level >= 4 =>
                  /\ gen_index \in 0..11
                  /\ threads[t].topic = ALL_TOPICS[gen_index + 1]

\* The last advanced topic is in a prompt at level 4 or 5, and the model
\* has been called with it.
C12_Witness ==
    \E t \in ThreadIds :
        /\ threads[t].kind = "gen" /\ threads[t].pc = "parse"
        /\ level >= 4
        /\ threads[t].topic = ADVANCED_TOPICS[Len(ADVANCED_TOPICS)]

\* C13: every background operation (mission generation, validation, hint,
\* full answer, explanation) ends with the loading state cleared: a started
\* thread finishes in the end, whatever its model calls give, and when it
\* is gone the controls are enabled again; and the loading state is set
\* only while a thread runs.
C13_LoadingCleared ==
    /\ \A t \in ThreadIds :
          threads[t].kind # "none" ~> (threads[t].kind = "none" /\ ~loading)
    /\ [](loading => \E t \in ThreadIds : threads[t].kind # "none")

\* A validation whose model calls all raised has ended: the error is in the
\* terminal, no thread is left and the controls are enabled.
C13_Witness ==
    /\ ~loading
    /\ \A t \in ThreadIds : threads[t].kind = "none"
    /\ terminal = Line("error")
    /\ current_mission # None
    /\ command_history # << >>

\* C14: XP is awarded at most once per mission.  Once a correct command has
\* completed the current mission, no step before the next mission is
\* generated adds XP or counts a mission.
C14_AwardedOncePerMission ==
    [][mission_log.solved =>
          /\ xp' = xp
          /\ missions_completed' = missions_completed]_vars

\* C15: a failed New Mission request leaves the mission state as it was.
\* Whenever no request is running, the hints counted and the completion
\* flag are those of the current mission: the hints asked for and the
\* award made since it was generated.
C15_FailedRequestKeepsMission ==
    ~loading /\ current_mission # None =>
        /\ hints_used = mission_log.hints
        /\ mission_completed = mission_log.solved

\* C16: no request finishes silently.  When no request is running, the
\* last line of the terminal is not the progress line of a request
\* ("[*] Generating new mission...", "[*] Scanning..."): the request that
\* wrote it has written its outcome after it.
C16_NoSilentFinish ==
    ~loading => terminal.kind # "progress"

\* C17: the XP gained for a correct command depends only on the hints used
\* on that mission.  At every award the gain is 100 when no hint was asked
\* for on the current mission, 50 after one and 25 after two or more, and
\* the terminal reports the new total.
C17_GainByHintsOfMission ==
    [][missions_completed' # missions_completed =>
          /\ xp' - xp = (IF mission_log.hints = 0 THEN 100
                         ELSE IF mission_log.hints = 1 THEN 50
                         ELSE 25)
          /\ terminal' = XpAwardedLine(xp')]_vars

(***************************************************************************)
(* A session that starts without a usable API key: initialize_api fails in *)
(* __init__, the banner with the key field and the Connect button is       *)
(* shown, and New Mission is enabled.                                      *)
(***************************************************************************)
InitConnect == \E f \in InitFiles : Started(f, FALSE)

NextConnect ==
    \/ OnApiKeySubmit
    \/ OnNewMission
    \/ \E t \in ThreadIds : GenStart(t)
    \/ \E t \in ThreadIds : GenCall(t)

SpecConnect == InitConnect /\ [][NextConnect]_vars

\* C18: at most one background operation is in flight at any time.
C18_OneOperationInFlight ==
    Cardinality({ t \in ThreadIds : threads[t].kind # "none" }) <= 1

=============================================================================
